---- MODULE Spec2Model ----
(***************************************************************************)
(* Model of the fixed-size worker thread pool of                           *)
(* Chapter-20/hello_webserver/src/lib.rs (ThreadPool, Worker, Message, the *)
(* mpsc dispatch channel and the Mutex around its Receiver) and of the     *)
(* memoising Cacher of Chapter-13/workout-closures/src/main.rs.            *)
(***************************************************************************)
EXTENDS Integers, Sequences, FiniteSets, TLC

\* Bounds of the model.
MaxSize == 2          \* largest size passed to ThreadPool::new
MaxJobs == 2          \* largest number of ThreadPool::execute calls
MaxArg  == 4          \* Cacher::value arguments are 0..MaxArg

NoWorker == -1        \* the Mutex is unlocked
NoJob    == 0         \* a Worker that holds no Job; also the payload of Terminate

VARIABLES
    poolPc,          \* position of the thread that owns the ThreadPool
    reqSize,         \* the argument of ThreadPool::new
    workers,         \* ThreadPool.workers : Vec<Worker>, records [id, thread]
    queue,           \* messages in flight in the mpsc channel (FIFO)
    lockHolder,      \* the Worker holding the MutexGuard of the Receiver
    poisoned,        \* the Mutex is poisoned
    wpc,             \* position of each Worker's thread in its loop
    wjob,            \* the Job a Worker is executing
    submitted,       \* number of execute calls made
    jobPanics,       \* whether the closure of a Job panics when called
    dequeued,        \* per Job, how many times its message was received
    started,         \* per Job, how many times call_box was entered
    finished,        \* per Job, how many times call_box returned
    termSent,        \* Terminate messages sent by drop
    sendI,           \* iterations done of drop's first loop
    joinI,           \* iterations done of drop's second loop
    joining,         \* drop is inside thread.join()
    joinCount,       \* per Worker, how many joins returned
    inFlightAtDrop,  \* the Jobs that were executing when drop was entered
    sentWhileBusy,   \* the Jobs submitted while some Worker was executing a Job
    queuedAtDrop,    \* the Jobs still in the channel when drop was entered
    calcKind,        \* Cacher.calculation
    cache,           \* Cacher.value : HashMap<V, Y>
    cpc,             \* outcome of the last Cacher::value call
    cArg,            \* argument of the last Cacher::value call
    cResult          \* value returned by the last Cacher::value call

poolVars   == <<poolPc, reqSize, workers, queue, lockHolder, poisoned, wpc, wjob,
                submitted, jobPanics, dequeued, started, finished, termSent,
                sendI, joinI, joining, joinCount, inFlightAtDrop, sentWhileBusy,
                queuedAtDrop>>
cacherVars == <<calcKind, cache, cpc, cArg, cResult>>
vars       == <<poolVars, cacherVars>>

JobIds    == 1..MaxJobs
WorkerIds == DOMAIN wpc

\* enum Message { NewJob(Job), Terminate }
NewJob(j)  == [type |-> "NewJob", job |-> j]
Terminate  == [type |-> "Terminate", job |-> NoJob]

\* The Receiver lives in an Arc cloned into every Worker closure; the Arc made
\* in ThreadPool::new is dropped when new returns, so the Receiver is dropped
\* when the last Worker thread has ended.
ReceiverAlive == \E w \in WorkerIds : wpc[w] \notin {"done", "panicked"}

\* The Sender is a field of ThreadPool: it is dropped with the pool.
SenderAlive == poolPc \notin {"dropped", "dropPanicked"}

AnyPanic == \E k \in 1..submitted : jobPanics[k]

----------------------------------------------------------------------------
\* Cacher

\* The closures the repository passes to Cacher::new: |num| num * 2 and |a| a.
\* The arguments of the model are small, so the u32 product cannot overflow.
Calc(kind, x) == IF kind = "double" THEN x * 2 ELSE x

CacherArgs == 0..MaxArg

CacherInit ==
    /\ calcKind \in {"double", "ident"}
    /\ cache = [k \in {} |-> 0]
    /\ cpc = "new"
    /\ cArg = 0
    /\ cResult = 0

ValueKeyBlind(arg) ==
    /\ IF DOMAIN cache # {}
       THEN /\ cResult' = cache[CHOOSE k \in DOMAIN cache : TRUE]
            /\ cpc' = "returned"
            /\ UNCHANGED cache
       ELSE /\ cache' = [k \in DOMAIN cache \cup {arg} |->
                            IF k = arg THEN Calc(calcKind, arg) ELSE cache[k]]
            /\ cResult' = Calc(calcKind, arg)
            /\ cpc' = "returned"
    /\ cArg' = arg
    /\ UNCHANGED <<calcKind, poolVars>>

\* Cacher::value
Value(arg) ==
    /\ IF arg \in DOMAIN cache
       THEN /\ cResult' = cache[arg]
            /\ cpc' = "returned"
            /\ UNCHANGED cache
       ELSE /\ cache' = [k \in DOMAIN cache \cup {arg} |->
                            IF k = arg THEN Calc(calcKind, arg) ELSE cache[k]]
            /\ cResult' = Calc(calcKind, arg)
            /\ cpc' = "returned"
    /\ cArg' = arg
    /\ UNCHANGED <<calcKind, poolVars>>

----------------------------------------------------------------------------
\* ThreadPool

PoolInit ==
    /\ poolPc = "start"
    /\ reqSize = 0
    /\ workers = <<>>
    /\ queue = <<>>
    /\ lockHolder = NoWorker
    /\ poisoned = FALSE
    /\ wpc = [w \in {} |-> "lock"]
    /\ wjob = [w \in {} |-> NoJob]
    /\ submitted = 0
    /\ jobPanics = [j \in JobIds |-> FALSE]
    /\ dequeued = [j \in JobIds |-> 0]
    /\ started = [j \in JobIds |-> 0]
    /\ finished = [j \in JobIds |-> 0]
    /\ termSent = 0
    /\ sendI = 0
    /\ joinI = 0
    /\ joining = FALSE
    /\ joinCount = [w \in {} |-> 0]
    /\ inFlightAtDrop = {}
    /\ sentWhileBusy = {}
    /\ queuedAtDrop = {}

Init ==
    /\ PoolInit
    /\ calcKind = "ident"
    /\ cache = [k \in {} |-> 0]
    /\ cpc = "new"
    /\ cArg = 0
    /\ cResult = 0

CInit == PoolInit /\ CacherInit

NewPoolNoAssert(size) ==
    /\ poolPc = "start"
    /\ reqSize' = size
    /\ workers' = [i \in 1..size |-> [id |-> i - 1, thread |-> TRUE]]
    /\ wpc' = [w \in 0..(size - 1) |-> "lock"]
    /\ wjob' = [w \in 0..(size - 1) |-> NoJob]
    /\ joinCount' = [w \in 0..(size - 1) |-> 0]
    /\ poolPc' = "alive"
    /\ UNCHANGED <<queue, lockHolder, poisoned, submitted, jobPanics, dequeued,
                   started, finished, termSent, sendI, joinI, joining,
                   inFlightAtDrop, sentWhileBusy, queuedAtDrop,
                   cacherVars>>

\* ThreadPool::new
NewPool(size) ==
    /\ poolPc = "start"
    /\ reqSize' = size
    /\ IF size > 0
       THEN /\ workers' = [i \in 1..size |-> [id |-> i - 1, thread |-> TRUE]]
            /\ wpc' = [w \in 0..(size - 1) |-> "lock"]
            /\ wjob' = [w \in 0..(size - 1) |-> NoJob]
            /\ joinCount' = [w \in 0..(size - 1) |-> 0]
            /\ poolPc' = "alive"
       ELSE /\ poolPc' = "newPanicked"
            /\ UNCHANGED <<workers, wpc, wjob, joinCount>>
    /\ UNCHANGED <<queue, lockHolder, poisoned, submitted, jobPanics, dequeued,
                   started, finished, termSent, sendI, joinI, joining,
                   inFlightAtDrop, sentWhileBusy, queuedAtDrop,
                   cacherVars>>

\* ThreadPool::execute; panics tells whether the closure f panics when run.
Execute(panics) ==
    /\ poolPc = "alive"
    /\ submitted < MaxJobs
    /\ submitted' = submitted + 1
    /\ jobPanics' = [jobPanics EXCEPT ![submitted + 1] = panics]
    /\ sentWhileBusy' = IF \E w \in WorkerIds : wpc[w] = "exec"
                        THEN sentWhileBusy \cup {submitted + 1}
                        ELSE sentWhileBusy
    /\ IF ReceiverAlive
       THEN /\ queue' = Append(queue, NewJob(submitted + 1))
            /\ UNCHANGED poolPc
       ELSE /\ poolPc' = "executePanicked"
            /\ UNCHANGED queue
    /\ UNCHANGED <<reqSize, workers, lockHolder, poisoned, wpc, wjob, dequeued,
                   started, finished, termSent, sendI, joinI, joining, joinCount,
                   inFlightAtDrop, queuedAtDrop, cacherVars>>

\* Drop for ThreadPool: entry.
BeginDrop ==
    /\ poolPc = "alive"
    /\ poolPc' = "dropSend"
    /\ sendI' = 0
    /\ inFlightAtDrop' = {wjob[w] : w \in {v \in WorkerIds : wpc[v] = "exec"}}
    /\ queuedAtDrop' = {queue[i].job : i \in 1..Len(queue)}
    /\ UNCHANGED <<reqSize, workers, queue, lockHolder, poisoned, wpc, wjob,
                   submitted, jobPanics, dequeued, started, finished, termSent,
                   joinI, joining, joinCount, sentWhileBusy, cacherVars>>

DropSendThenJoin ==
    /\ poolPc = "dropSend"
    /\ sendI < Len(workers)
    /\ IF ReceiverAlive
       THEN /\ queue' = Append(queue, Terminate)
            /\ termSent' = termSent + 1
            /\ sendI' = sendI + 1
            /\ poolPc' = "dropJoin"
            /\ joinI' = 0
       ELSE /\ poolPc' = "dropPanicked"
            /\ UNCHANGED <<queue, termSent, sendI, joinI>>
    /\ UNCHANGED <<reqSize, workers, lockHolder, poisoned, wpc, wjob, submitted,
                   jobPanics, dequeued, started, finished, joining, joinCount,
                   inFlightAtDrop, sentWhileBusy, queuedAtDrop,
                   cacherVars>>

DropSendUrgent ==
    /\ poolPc = "dropSend"
    /\ sendI < Len(workers)
    /\ IF ReceiverAlive
       THEN /\ queue' = <<Terminate>> \o queue
            /\ termSent' = termSent + 1
            /\ sendI' = sendI + 1
            /\ IF sendI + 1 = Len(workers)
               THEN poolPc' = "dropJoin" /\ joinI' = 0
               ELSE UNCHANGED <<poolPc, joinI>>
       ELSE /\ poolPc' = "dropPanicked"
            /\ UNCHANGED <<queue, termSent, sendI, joinI>>
    /\ UNCHANGED <<reqSize, workers, lockHolder, poisoned, wpc, wjob, submitted,
                   jobPanics, dequeued, started, finished, joining, joinCount,
                   inFlightAtDrop, sentWhileBusy, queuedAtDrop, cacherVars>>

\* Drop for ThreadPool: one iteration of the loop that sends Terminate.
DropSend ==
    /\ poolPc = "dropSend"
    /\ sendI < Len(workers)
    /\ IF ReceiverAlive
       THEN /\ queue' = Append(queue, Terminate)
            /\ termSent' = termSent + 1
            /\ sendI' = sendI + 1
            /\ IF sendI + 1 = Len(workers)
               THEN poolPc' = "dropJoin" /\ joinI' = 0
               ELSE UNCHANGED <<poolPc, joinI>>
       ELSE /\ poolPc' = "dropPanicked"
            /\ UNCHANGED <<queue, termSent, sendI, joinI>>
    /\ UNCHANGED <<reqSize, workers, lockHolder, poisoned, wpc, wjob, submitted,
                   jobPanics, dequeued, started, finished, joining, joinCount,
                   inFlightAtDrop, sentWhileBusy, queuedAtDrop,
                   cacherVars>>

\* Drop for ThreadPool: worker.thread.take() and the call of join.
JoinCall ==
    /\ poolPc = "dropJoin"
    /\ ~joining
    /\ joinI < Len(workers)
    /\ IF workers[joinI + 1].thread
       THEN /\ workers' = [workers EXCEPT ![joinI + 1].thread = FALSE]
            /\ joining' = TRUE
            /\ UNCHANGED <<joinI, poolPc>>
       ELSE /\ joinI' = joinI + 1
            /\ poolPc' = IF joinI + 1 = Len(workers) THEN "dropped" ELSE poolPc
            /\ UNCHANGED <<workers, joining>>
    /\ UNCHANGED <<reqSize, queue, lockHolder, poisoned, wpc, wjob, submitted,
                   jobPanics, dequeued, started, finished, termSent, sendI,
                   joinCount, inFlightAtDrop, sentWhileBusy, queuedAtDrop,
                   cacherVars>>

JoinReturnNoWait ==
    /\ poolPc = "dropJoin"
    /\ joining
    /\ LET id == workers[joinI + 1].id IN
        IF wpc[id] # "panicked"
        THEN /\ joinCount' = [joinCount EXCEPT ![id] = @ + 1]
             /\ joining' = FALSE
             /\ joinI' = joinI + 1
             /\ poolPc' = IF joinI + 1 = Len(workers) THEN "dropped" ELSE poolPc
        ELSE /\ poolPc' = "dropPanicked"
             /\ UNCHANGED <<joinCount, joining, joinI>>
    /\ UNCHANGED <<reqSize, workers, queue, lockHolder, poisoned, wpc, wjob,
                   submitted, jobPanics, dequeued, started, finished, termSent,
                   sendI, inFlightAtDrop, sentWhileBusy, queuedAtDrop,
                   cacherVars>>

\* Drop for ThreadPool: join returns once the Worker's thread has ended;
\* unwrap panics when that thread ended by a panic.
JoinReturn ==
    /\ poolPc = "dropJoin"
    /\ joining
    /\ LET id == workers[joinI + 1].id IN
        /\ wpc[id] \in {"done", "panicked"}
        /\ IF wpc[id] = "done"
           THEN /\ joinCount' = [joinCount EXCEPT ![id] = @ + 1]
                /\ joining' = FALSE
                /\ joinI' = joinI + 1
                /\ poolPc' = IF joinI + 1 = Len(workers) THEN "dropped" ELSE poolPc
           ELSE /\ poolPc' = "dropPanicked"
                /\ UNCHANGED <<joinCount, joining, joinI>>
    /\ UNCHANGED <<reqSize, workers, queue, lockHolder, poisoned, wpc, wjob,
                   submitted, jobPanics, dequeued, started, finished, termSent,
                   sendI, inFlightAtDrop, sentWhileBusy, queuedAtDrop,
                   cacherVars>>

----------------------------------------------------------------------------
\* Worker thread: loop { let message = rx.lock().unwrap().recv().unwrap(); ... }

LockNotExclusive(w) ==
    /\ w \in WorkerIds
    /\ wpc[w] = "lock"
    /\ wpc' = [wpc EXCEPT ![w] = "recv"]
    /\ UNCHANGED <<poolPc, reqSize, workers, queue, lockHolder, poisoned, wjob,
                   submitted, jobPanics, dequeued, started, finished, termSent,
                   sendI, joinI, joining, joinCount, inFlightAtDrop, sentWhileBusy, queuedAtDrop,
                   cacherVars>>

\* rx.lock().unwrap(): blocks while another Worker holds the guard; a poisoned
\* Mutex makes unwrap panic, which drops the guard again.
Lock(w) ==
    /\ w \in WorkerIds
    /\ wpc[w] = "lock"
    /\ lockHolder = NoWorker
    /\ IF poisoned
       THEN /\ wpc' = [wpc EXCEPT ![w] = "panicked"]
            /\ UNCHANGED lockHolder
       ELSE /\ wpc' = [wpc EXCEPT ![w] = "recv"]
            /\ lockHolder' = w
    /\ UNCHANGED <<poolPc, reqSize, workers, queue, poisoned, wjob, submitted,
                   jobPanics, dequeued, started, finished, termSent, sendI,
                   joinI, joining, joinCount, inFlightAtDrop, sentWhileBusy, queuedAtDrop,
                   cacherVars>>

RecvKeepsLock(w) ==
    /\ w \in WorkerIds
    /\ wpc[w] = "recv"
    /\ queue # <<>> \/ ~SenderAlive
    /\ IF queue # <<>>
       THEN LET message == Head(queue) IN
            /\ queue' = Tail(queue)
            /\ UNCHANGED poisoned
            /\ IF message.type = "NewJob"
               THEN /\ wpc' = [wpc EXCEPT ![w] = "exec"]
                    /\ wjob' = [wjob EXCEPT ![w] = message.job]
                    /\ dequeued' = [dequeued EXCEPT ![message.job] = @ + 1]
                    /\ started' = [started EXCEPT ![message.job] = @ + 1]
                    /\ UNCHANGED lockHolder
               ELSE /\ wpc' = [wpc EXCEPT ![w] = "done"]
                    /\ lockHolder' = NoWorker
                    /\ UNCHANGED <<wjob, dequeued, started>>
       ELSE /\ wpc' = [wpc EXCEPT ![w] = "panicked"]
            /\ poisoned' = TRUE
            /\ lockHolder' = NoWorker
            /\ UNCHANGED <<queue, wjob, dequeued, started>>
    /\ UNCHANGED <<poolPc, reqSize, workers, submitted, jobPanics, finished,
                   termSent, sendI, joinI, joining, joinCount, inFlightAtDrop,
                   sentWhileBusy, queuedAtDrop,
                   cacherVars>>

RecvNoBreak(w) ==
    /\ w \in WorkerIds
    /\ wpc[w] = "recv"
    /\ queue # <<>> \/ ~SenderAlive
    /\ lockHolder' = NoWorker
    /\ IF queue # <<>>
       THEN LET message == Head(queue) IN
            /\ queue' = Tail(queue)
            /\ UNCHANGED poisoned
            /\ IF message.type = "NewJob"
               THEN /\ wpc' = [wpc EXCEPT ![w] = "exec"]
                    /\ wjob' = [wjob EXCEPT ![w] = message.job]
                    /\ dequeued' = [dequeued EXCEPT ![message.job] = @ + 1]
                    /\ started' = [started EXCEPT ![message.job] = @ + 1]
               ELSE /\ wpc' = [wpc EXCEPT ![w] = "lock"]
                    /\ UNCHANGED <<wjob, dequeued, started>>
       ELSE /\ wpc' = [wpc EXCEPT ![w] = "panicked"]
            /\ poisoned' = TRUE
            /\ UNCHANGED <<queue, wjob, dequeued, started>>
    /\ UNCHANGED <<poolPc, reqSize, workers, submitted, jobPanics, finished,
                   termSent, sendI, joinI, joining, joinCount, inFlightAtDrop,
                   sentWhileBusy, queuedAtDrop,
                   cacherVars>>

RecvSkipsJob(w) ==
    /\ w \in WorkerIds
    /\ wpc[w] = "recv"
    /\ queue # <<>> \/ ~SenderAlive
    /\ lockHolder' = NoWorker
    /\ IF queue # <<>>
       THEN LET message == Head(queue) IN
            /\ queue' = Tail(queue)
            /\ UNCHANGED poisoned
            /\ IF message.type = "NewJob"
               THEN /\ wpc' = [wpc EXCEPT ![w] = "lock"]
                    /\ dequeued' = [dequeued EXCEPT ![message.job] = @ + 1]
                    /\ UNCHANGED <<wjob, started>>
               ELSE /\ wpc' = [wpc EXCEPT ![w] = "done"]
                    /\ UNCHANGED <<wjob, dequeued, started>>
       ELSE /\ wpc' = [wpc EXCEPT ![w] = "panicked"]
            /\ poisoned' = TRUE
            /\ UNCHANGED <<queue, wjob, dequeued, started>>
    /\ UNCHANGED <<poolPc, reqSize, workers, submitted, jobPanics, finished,
                   termSent, sendI, joinI, joining, joinCount, inFlightAtDrop,
                   sentWhileBusy, queuedAtDrop,
                   cacherVars>>

\* .recv().unwrap() and the match on the message.  recv blocks while the
\* channel is empty and the Sender lives; it fails when the channel is empty
\* and the Sender is gone, and unwrap then panics with the guard held, which
\* poisons the Mutex.  The guard is a temporary of the let statement: it is
\* dropped before the match.
Recv(w) ==
    /\ w \in WorkerIds
    /\ wpc[w] = "recv"
    /\ queue # <<>> \/ ~SenderAlive
    /\ lockHolder' = NoWorker
    /\ IF queue # <<>>
       THEN LET message == Head(queue) IN
            /\ queue' = Tail(queue)
            /\ UNCHANGED poisoned
            /\ IF message.type = "NewJob"
               THEN /\ wpc' = [wpc EXCEPT ![w] = "exec"]
                    /\ wjob' = [wjob EXCEPT ![w] = message.job]
                    /\ dequeued' = [dequeued EXCEPT ![message.job] = @ + 1]
                    /\ started' = [started EXCEPT ![message.job] = @ + 1]
               ELSE /\ wpc' = [wpc EXCEPT ![w] = "done"]
                    /\ UNCHANGED <<wjob, dequeued, started>>
       ELSE /\ wpc' = [wpc EXCEPT ![w] = "panicked"]
            /\ poisoned' = TRUE
            /\ UNCHANGED <<queue, wjob, dequeued, started>>
    /\ UNCHANGED <<poolPc, reqSize, workers, submitted, jobPanics, finished,
                   termSent, sendI, joinI, joining, joinCount, inFlightAtDrop,
                   sentWhileBusy, queuedAtDrop,
                   cacherVars>>

\* job.call_box() returns: the Worker goes round its loop.
JobReturn(w) ==
    /\ w \in WorkerIds
    /\ wpc[w] = "exec"
    /\ ~jobPanics[wjob[w]]
    /\ finished' = [finished EXCEPT ![wjob[w]] = @ + 1]
    /\ wjob' = [wjob EXCEPT ![w] = NoJob]
    /\ wpc' = [wpc EXCEPT ![w] = "lock"]
    /\ UNCHANGED <<poolPc, reqSize, workers, queue, lockHolder, poisoned,
                   submitted, jobPanics, dequeued, started, termSent, sendI,
                   joinI, joining, joinCount, inFlightAtDrop, sentWhileBusy, queuedAtDrop,
                   cacherVars>>

\* job.call_box() panics: the Worker's thread unwinds and ends.  No guard is
\* held here, so the Mutex is not poisoned.
JobPanic(w) ==
    /\ w \in WorkerIds
    /\ wpc[w] = "exec"
    /\ jobPanics[wjob[w]]
    /\ wjob' = [wjob EXCEPT ![w] = NoJob]
    /\ wpc' = [wpc EXCEPT ![w] = "panicked"]
    /\ UNCHANGED <<poolPc, reqSize, workers, queue, lockHolder, poisoned,
                   submitted, jobPanics, dequeued, started, finished, termSent,
                   sendI, joinI, joining, joinCount, inFlightAtDrop, sentWhileBusy, queuedAtDrop,
                   cacherVars>>

----------------------------------------------------------------------------
\* Specifications

WorkerStep(w) == Lock(w) \/ Recv(w) \/ JobReturn(w) \/ JobPanic(w)

Next ==
    \/ \E size \in 0..MaxSize : NewPool(size)
    \/ \E panics \in BOOLEAN : Execute(panics)
    \/ BeginDrop
    \/ DropSend
    \/ JoinCall
    \/ JoinReturn
    \/ \E w \in 0..(MaxSize - 1) : Lock(w)
    \/ \E w \in 0..(MaxSize - 1) : Recv(w)
    \/ \E w \in 0..(MaxSize - 1) : JobReturn(w)
    \/ \E w \in 0..(MaxSize - 1) : JobPanic(w)

Spec == Init /\ [][Next]_vars

\* Threads that can take a step are scheduled; a free Mutex with waiters is
\* acquired by one of them.  The caller is not obliged to call execute or to
\* drop the pool.
Fairness ==
    /\ WF_vars(DropSend)
    /\ WF_vars(JoinCall)
    /\ WF_vars(JoinReturn)
    /\ WF_vars(\E w \in 0..(MaxSize - 1) : Lock(w))
    /\ \A w \in 0..(MaxSize - 1) :
        WF_vars(Recv(w)) /\ WF_vars(JobReturn(w)) /\ WF_vars(JobPanic(w))

FairSpec == Spec /\ Fairness

CNext == \E arg \in CacherArgs : Value(arg)

CacherSpec == CInit /\ [][CNext]_vars
----------------------------------------------------------------------------
\* Properties

Terminates(q) == {i \in 1..Len(q) : q[i].type = "Terminate"}

Idle(w) == wpc[w] \in {"lock", "recv"}

\* C1: when no submitted Job panics, every Job submitted through execute is
\* eventually executed; a Job's message is received by at most one Worker and
\* its closure is called at most once.
C1_EveryJobExactlyOnce ==
    /\ [](\A j \in JobIds :
            /\ started[j] <= 1
            /\ finished[j] <= started[j]
            /\ dequeued[j] <= 1
            /\ started[j] = 1 => j <= submitted)
    /\ \A j \in JobIds : (j <= submitted) ~> (finished[j] = 1 \/ AnyPanic)

C1_Witness ==
    /\ submitted = MaxJobs
    /\ ~AnyPanic
    /\ \A j \in JobIds : finished[j] = 1
    /\ \A j \in JobIds : dequeued[j] = 1

\* C2: drop sends one Terminate per Worker of the pool, never more, and all of
\* them before it calls join on any Worker.
C2_TerminatePerWorkerBeforeJoin ==
    /\ termSent <= Len(workers)
    /\ termSent = sendI
    /\ Cardinality(Terminates(queue))
          + Cardinality({w \in WorkerIds : wpc[w] = "done"}) = termSent
    /\ (poolPc = "dropJoin" \/ joining \/ joinI > 0
            \/ \E i \in 1..Len(workers) : ~workers[i].thread)
          => termSent = Len(workers)
    /\ poolPc = "dropped" => termSent = Len(workers)

C2_Witness ==
    /\ poolPc = "dropJoin"
    /\ joining
    /\ joinI = 0
    /\ Len(workers) = MaxSize
    /\ termSent = MaxSize

\* C3: when drop has returned every Worker's thread has ended, every Job that
\* was started (those executing when drop was entered included) has returned,
\* and every Worker was joined exactly once; a Job that was started and has
\* not returned is still being executed by its Worker unless it panicked.
C3_DropReturnsAfterWorkersStop ==
    /\ \A w \in WorkerIds : joinCount[w] <= 1
    /\ \A j \in JobIds : (started[j] > finished[j] /\ ~jobPanics[j]) =>
          \E w \in WorkerIds : wpc[w] = "exec" /\ wjob[w] = j
    /\ poolPc = "dropped" =>
          /\ \A w \in WorkerIds :
                wpc[w] = "done" /\ joinCount[w] = 1 /\ ~workers[w + 1].thread
          /\ \A j \in inFlightAtDrop : finished[j] = 1
          /\ \A j \in JobIds : started[j] = finished[j]

C3_Witness ==
    /\ poolPc = "dropped"
    /\ inFlightAtDrop # {}
    /\ Len(workers) > 1

\* C4: the guard of the Receiver's Mutex is held only by a Worker inside
\* recv, never by one executing a Job; hence while a Worker executes a Job
\* and another Job heads the channel, an idle Worker can take the lock or
\* receive at once.
C4_LockOnlyAroundRecv ==
    /\ \A w \in WorkerIds : wpc[w] = "exec" => lockHolder # w
    /\ \A w \in WorkerIds : lockHolder = w => wpc[w] = "recv"
    /\ ( /\ \E w \in WorkerIds : wpc[w] = "exec"
         /\ \E v \in WorkerIds : Idle(v)
         /\ queue # <<>> )
          => ENABLED (\E v \in 0..(MaxSize - 1) : Lock(v) \/ Recv(v))

C4_Witness ==
    \E w, v \in WorkerIds :
        /\ w # v
        /\ wpc[w] = "exec"
        /\ wpc[v] = "exec"
        /\ wjob[w] < wjob[v]
        /\ wjob[v] \in sentWhileBusy

\* C5: a Job that panicked takes down only its Worker: neither execute nor
\* drop panics afterwards.
C5_JobPanicConfined ==
    (\E w \in WorkerIds : wpc[w] = "panicked")
        => poolPc \notin {"executePanicked", "dropPanicked"}

\* C6: an execute whose send fails because the Receiver is gone does not
\* panic.
C6_SendFailureNotPanic ==
    (poolPc # "start" /\ ~ReceiverAlive /\ submitted > 0)
        => poolPc # "executePanicked"

\* C7: new(0) panics and spawns nothing; new(size) with size > 0 gives size
\* Workers with ids 0..size-1, all live on return, and the number of Workers
\* never changes afterwards.
C7_PoolSizeFixed ==
    /\ [](poolPc = "newPanicked" => workers = <<>> /\ WorkerIds = {})
    /\ []((poolPc # "start" /\ reqSize = 0) => poolPc = "newPanicked")
    /\ [](poolPc \notin {"start", "newPanicked"} =>
            /\ Len(workers) = reqSize
            /\ \A i \in 1..Len(workers) : workers[i].id = i - 1
            /\ WorkerIds = 0..(reqSize - 1))
    /\ [][(poolPc = "start" /\ poolPc' = "alive") =>
            \A i \in 1..Len(workers') :
                workers'[i].thread /\ wpc'[workers'[i].id] = "lock"]_vars
    /\ [][poolPc # "start" => Len(workers') = Len(workers)]_vars

C7_Witness ==
    /\ poolPc = "dropped"
    /\ Len(workers) = MaxSize

\* C8: when no submitted Job panics, a drop that was entered returns.
C8_DropReturns ==
    (poolPc = "dropSend" /\ ~AnyPanic) ~> (poolPc = "dropped")

C8_Witness ==
    /\ poolPc = "dropped"
    /\ submitted = 0
    /\ Len(workers) = MaxSize
    /\ \A w \in WorkerIds : wpc[w] = "done"

\* C9: a call of Cacher::value returns the calculation of its own argument,
\* whatever was cached before.
C9_ValueOfOwnArgument ==
    cpc = "returned" => cResult = Calc(calcKind, cArg)

C9_Witness ==
    /\ cpc = "returned"
    /\ calcKind = "ident"
    /\ 1 \in DOMAIN cache
    /\ cArg = 2
    /\ cResult = 2

\* C10 (as stated): no idle Worker waits for the Receiver's lock while
\* another idle Worker holds it blocked in recv.
C10_NeverWaitsForLock ==
    ~ \E w, v \in WorkerIds :
        /\ wpc[w] = "lock"
        /\ lockHolder = v
        /\ wpc[v] = "recv"
        /\ queue = <<>>

\* C10 (amended): an idle Worker that cannot proceed is either the one Worker
\* inside recv, holding the lock on an empty channel, or is waiting for the
\* lock that a Worker inside recv holds; at most one Worker is inside recv.
C10_IdleBlocking ==
    /\ Cardinality({w \in WorkerIds : wpc[w] = "recv"}) <= 1
    /\ \A w \in WorkerIds : wpc[w] = "recv" => lockHolder = w
    /\ \A w \in WorkerIds :
          (Idle(w) /\ ~ENABLED (Lock(w) \/ Recv(w))) =>
              \/ wpc[w] = "recv" /\ queue = <<>>
              \/ /\ wpc[w] = "lock"
                 /\ lockHolder \in WorkerIds \ {w}
                 /\ wpc[lockHolder] = "recv"

C10_Witness ==
    \E w, v \in WorkerIds :
        /\ wpc[w] = "lock"
        /\ lockHolder = v
        /\ wpc[v] = "recv"
        /\ queue = <<>>
        /\ ~ENABLED (Lock(w) \/ Recv(w))
        /\ ~ENABLED (Lock(v) \/ Recv(v))
\* C11: the Terminates of drop are queued behind every Job submitted before;
\* no Worker has taken a Terminate while a Job is still in the channel; and
\* when no submitted Job panics and drop has returned, every submitted Job
\* has been executed to completion and the channel is empty.
C11_ShutdownDrainsQueue ==
    /\ \A i, k \in 1..Len(queue) :
          (i < k /\ queue[i].type = "Terminate") => queue[k].type = "Terminate"
    /\ (\E w \in WorkerIds : wpc[w] = "done") =>
          \A i \in 1..Len(queue) : queue[i].type = "Terminate"
    /\ (poolPc = "dropped" /\ ~AnyPanic) =>
          /\ queue = <<>>
          /\ \A j \in 1..submitted :
                started[j] = 1 /\ finished[j] = 1 /\ dequeued[j] = 1

C11_Witness ==
    /\ poolPc = "dropped"
    /\ ~AnyPanic
    /\ submitted = MaxJobs
    /\ queuedAtDrop = 1..MaxJobs
    /\ queue = <<>>
    /\ \A j \in JobIds : finished[j] = 1
====
